---------------------------- MODULE Spec2Model ----------------------------
(***************************************************************************)
(* Model of nil::crypto3::math::extended_radix2_domain<FieldType>          *)
(* (extended_radix2_domain.hpp): an evaluation domain of size m made of    *)
(* the radix-2 subgroup generated by omega and its coset by shift.         *)
(*                                                                         *)
(* Vectors are TLA+ sequences: the C++ index i is the TLA+ index i + 1.    *)
(* Field elements of the prime field F_p are the integers 0 .. p-1.        *)
(***************************************************************************)
EXTENDS Integers, Sequences, FiniteSets, TLC

(***************************************************************************)
(* Bounds of the exploration.                                              *)
(***************************************************************************)
\* Largest m handed to the constructor.
MaxM == 9
\* Vectors handed to the domain have at most MaxNonZero non-zero entries ...
MaxNonZero == 2
\* ... each of them in 1 .. MaxCoeff (capped at p - 1).
MaxCoeff == 1
\* Vectors are up to MaxExtra entries longer than m.
MaxExtra == 1
\* Value of a field of the object that no statement has assigned yet.
Unset == -1

(***************************************************************************)
(* FieldType: the template parameter.  A prime field F_p with 2-adicity s  *)
(* (p - 1 = 2^s * t, t odd) and a fixed multiplicative generator.  All     *)
(* fields have t > 1, so that the power-of-two subgroup of order 2^s has a *)
(* coset in F_p^* disjoint from it.                                        *)
(***************************************************************************)
Fields ==
    { [p |-> 7,  s |-> 1, multiplicative_generator |-> 3],
      [p |-> 11, s |-> 1, multiplicative_generator |-> 2],
      [p |-> 13, s |-> 2, multiplicative_generator |-> 2] }

VARIABLES
    FieldType,   \* the field the domain is instantiated with
    cshift,      \* the value detail::coset_shift<FieldType>() returns
    status,      \* "none" | "ok" | "failed": outcome of the constructor
    m,           \* evaluation_domain<FieldType>::m
    small_m,     \* extended_radix2_domain::small_m
    omega,       \* extended_radix2_domain::omega
    shift,       \* extended_radix2_domain::shift
    op,          \* the member function called last
    hist,        \* the member functions called on the caller's buffer so far
    orig,        \* the caller's buffer before the first of those calls
    a_in,        \* the caller's buffer before the last call
    a,           \* the caller's buffer after the last call
    arg,         \* scalar argument of the last call (t, idx, coeff)
    ret,         \* field element returned by the last call
    result,      \* vector returned by the last call
    err          \* "none", or what() of the exception the last call threw

vars == << FieldType, cshift, status, m, small_m, omega, shift,
           op, hist, orig, a_in, a, arg, ret, result, err >>

domainVars == << FieldType, cshift, status, m, small_m, omega, shift >>

(***************************************************************************)
(* Field capability: arithmetic of FieldType::value_type.                  *)
(***************************************************************************)
P == FieldType.p

Elems == 0 .. (P - 1)

zero == 0

one == 1

value_type(n) == n % P

add(x, y) == (x + y) % P

sub(x, y) == (x + P - y) % P

neg(x) == (P - x) % P

mul(x, y) == (x * y) % P

RECURSIVE pow(_, _)
pow(x, e) == IF e = 0 THEN one ELSE mul(x, pow(x, e - 1))

\* inversed() of a non-zero element; of zero the field layer leaves the
\* result undefined, see InverseOutcomes.
inversed(x) == pow(x, P - 2)

\* The values x.inversed() can return: the inverse, and for x = zero any
\* element at all (the call may also throw, see DivideByZOnCoset).
InverseOutcomes(x) == IF x = zero THEN Elems ELSE {inversed(x)}

RECURSIVE Pow2(_)
Pow2(k) == IF k = 0 THEN 1 ELSE 2 * Pow2(k - 1)

\* static_cast<std::size_t>(std::ceil(std::log2(n))) for n >= 1
RECURSIVE CeilLog2From(_, _)
CeilLog2From(n, k) == IF Pow2(k) >= n THEN k ELSE CeilLog2From(n, k + 1)

CeilLog2(n) == CeilLog2From(n, 0)

IsPow2(n) == n >= 1 /\ n = Pow2(CeilLog2(n))

\* fields::arithmetic_params<FieldType>::s
s == FieldType.s

multiplicative_generator == FieldType.multiplicative_generator

(***************************************************************************)
(* Collaborators of the domain.                                            *)
(***************************************************************************)
\* unity_root<FieldType>(n) is defined when n divides 2^s ...
unity_root_defined(n) == IsPow2(n) /\ CeilLog2(n) <= s

\* ... and is then the element of exact order n fixed by the generator.
unity_root(n) == pow(multiplicative_generator, (P - 1) \div n)

\* The power-of-two subgroup of order 2^s.
Radix2Subgroup == { x \in Elems : pow(x, Pow2(s)) = one }

\* detail::coset_shift<FieldType>(): a fixed element outside the subgroup.
CosetShiftChoices == (Elems \ {zero}) \ Radix2Subgroup

RECURSIVE SumTo(_, _)
\* f[1] + ... + f[n] in the field
SumTo(f, n) == IF n = 0 THEN zero ELSE add(SumTo(f, n - 1), f[n])

basic_radix2_fft_defined(v) == IsPow2(Len(v))

\* detail::basic_radix2_fft<FieldType>(v, w): the unscaled DFT
\* out[i] = sum_j v[j] * w^(i*j).
basic_radix2_fft(v, w) ==
    [ i \in 1 .. Len(v) |->
        SumTo([ j \in 1 .. Len(v) |-> mul(v[j], pow(w, (i - 1) * (j - 1))) ],
              Len(v)) ]

RECURSIVE ProdTo(_, _)
\* f[1] * ... * f[n] in the field
ProdTo(f, n) == IF n = 0 THEN one ELSE mul(ProdTo(f, n - 1), f[n])

\* detail::basic_radix2_evaluate_all_lagrange_polynomials<FieldType>(n, t):
\* entry i is the Lagrange basis polynomial of unity_root(n)^i over the
\* subgroup of order n, evaluated at t.
basic_radix2_evaluate_all_lagrange_polynomials(n, t) ==
    LET w == unity_root(n)
        x(i) == pow(w, i - 1)
    IN  [ i \in 1 .. n |->
            mul(ProdTo([ j \in 1 .. n |->
                           IF j = i THEN one ELSE sub(t, x(j)) ], n),
                inversed(ProdTo([ j \in 1 .. n |->
                           IF j = i THEN one ELSE sub(x(i), x(j)) ], n))) ]

(***************************************************************************)
(* std::vector helpers.                                                    *)
(***************************************************************************)
\* v.resize(n, fill): the first n entries of v, fill where v has none
resize(v, n, fill) == [ i \in 1 .. n |-> IF i <= Len(v) THEN v[i] ELSE fill ]

\* std::vector<value_type>(v.begin() + from, v.begin() + to)
slice(v, from, to) == [ i \in 1 .. (to - from) |-> v[from + i] ]

(***************************************************************************)
(* extended_radix2_domain: the member functions as functions of the        *)
(* object's fields and their arguments.  Those that can throw return a     *)
(* record [err, a]: what() of the exception ("none" without one) and the   *)
(* caller's buffer as the call leaves it.                                  *)
(***************************************************************************)
ErrM == "extended_radix2(): expected m > 1"

ErrLogM == "extended_radix2(): expected logm == fields::arithmetic_params<FieldType>::s + 1"

ErrSize == "extended_radix2: expected a.size() == this->m"

ErrUnityRoot == "unity_root: order does not divide 2^s"

ErrBasicFft == "basic_radix2_fft: length is not a power of two"

ErrInverse == "inversed: zero has no inverse"

\* Variant of the constructor that sets small_m before it validates m.
extended_radix2_domain_early_small_m(mm) ==
    IF mm <= 1
    THEN [err |-> ErrM, small_m |-> mm \div 2, omega |-> Unset,
          shift |-> Unset]
    ELSE IF CeilLog2(mm) # s + 1
    THEN [err |-> ErrLogM, small_m |-> mm \div 2, omega |-> Unset,
          shift |-> Unset]
    ELSE IF ~ unity_root_defined(mm \div 2)
    THEN [err |-> ErrUnityRoot, small_m |-> mm \div 2, omega |-> Unset,
          shift |-> Unset]
    ELSE [err |-> "none", small_m |-> mm \div 2,
          omega |-> unity_root(mm \div 2), shift |-> cshift]

\* The constructor: the fields of the object and the exception, if any.
extended_radix2_domain(mm) ==
    IF mm <= 1
    THEN [err |-> ErrM, small_m |-> Unset, omega |-> Unset, shift |-> Unset]
    ELSE IF CeilLog2(mm) # s + 1
    THEN [err |-> ErrLogM, small_m |-> Unset, omega |-> Unset, shift |-> Unset]
    ELSE IF ~ unity_root_defined(mm \div 2)
    THEN [err |-> ErrUnityRoot, small_m |-> mm \div 2, omega |-> Unset,
          shift |-> Unset]
    ELSE [err |-> "none", small_m |-> mm \div 2,
          omega |-> unity_root(mm \div 2), shift |-> cshift]

\* The mixing step of fft (lines 82-93): a0 and a1 before the two FFTs.
fft_a0(v) == [ i \in 1 .. small_m |-> add(v[i], v[small_m + i]) ]

fft_a1(v) ==
    LET shift_to_small_m == pow(shift, small_m)
    IN  [ i \in 1 .. small_m |->
            mul(pow(shift, i - 1),
                add(v[i], mul(shift_to_small_m, v[small_m + i]))) ]

\* The write-back of fft (lines 98-101) into the buffer v.
fft_store(v, a0, a1) ==
    [ i \in 1 .. Len(v) |->
        IF i <= small_m THEN a0[i]
        ELSE IF i <= 2 * small_m THEN a1[i - small_m]
        ELSE v[i] ]

\* Variant of fft whose size check lets one entry too many through.
fft_size_off_by_one(v) ==
    IF Len(v) > m + 1
    THEN [err |-> ErrSize, a |-> v]
    ELSE LET b  == resize(v, m, zero)
             a0 == fft_a0(b)
             a1 == fft_a1(b)
         IN  [err |-> "none",
              a   |-> fft_store(b, basic_radix2_fft(a0, omega),
                                   basic_radix2_fft(a1, omega))]

\* Variant of fft that pads a short vector with one instead of zero.
fft_pads_with_one(v) ==
    IF Len(v) > m
    THEN [err |-> ErrSize, a |-> v]
    ELSE LET b  == resize(v, m, one)
             a0 == fft_a0(b)
             a1 == fft_a1(b)
         IN  [err |-> "none",
              a   |-> fft_store(b, basic_radix2_fft(a0, omega),
                                   basic_radix2_fft(a1, omega))]

fft(v) ==
    IF Len(v) > m
    THEN [err |-> ErrSize, a |-> v]
    ELSE LET b  == resize(v, m, zero)
             a0 == fft_a0(b)
             a1 == fft_a1(b)
         IN  IF ~ basic_radix2_fft_defined(a0)
             THEN [err |-> ErrBasicFft, a |-> b]
             ELSE [err |-> "none",
                   a   |-> fft_store(b, basic_radix2_fft(a0, omega),
                                        basic_radix2_fft(a1, omega))]

\* The recombination of inverse_fft (lines 121-132) written into v.
inverse_fft_store(v, a0, a1) ==
    LET shift_to_small_m == pow(shift, small_m)
        sconst == inversed(mul(value_type(small_m),
                               sub(one, shift_to_small_m)))
        shift_inverse == inversed(shift)
    IN  [ i \in 1 .. Len(v) |->
            IF i <= small_m
            THEN mul(sconst,
                     add(mul(neg(shift_to_small_m), a0[i]),
                         mul(pow(shift_inverse, i - 1), a1[i])))
            ELSE IF i <= 2 * small_m
            THEN mul(sconst,
                     sub(a0[i - small_m],
                         mul(pow(shift_inverse, i - small_m - 1),
                             a1[i - small_m])))
            ELSE v[i] ]

inverse_fft(v) ==
    IF Len(v) > m
    THEN [err |-> ErrSize, a |-> v]
    ELSE LET b  == resize(v, m, zero)
             a0 == slice(b, 0, small_m)
             a1 == slice(b, small_m, Len(b))
             omega_inverse == inversed(omega)
         IN  IF ~ basic_radix2_fft_defined(a0) \/ ~ basic_radix2_fft_defined(a1)
             THEN [err |-> ErrBasicFft, a |-> b]
             ELSE [err |-> "none",
                   a   |-> inverse_fft_store(b,
                               basic_radix2_fft(a0, omega_inverse),
                               basic_radix2_fft(a1, omega_inverse))]

evaluate_all_lagrange_polynomials(t) ==
    LET T0 == basic_radix2_evaluate_all_lagrange_polynomials(small_m, t)
        T1 == basic_radix2_evaluate_all_lagrange_polynomials(
                  small_m, mul(t, inversed(shift)))
        t_to_small_m == pow(t, small_m)
        shift_to_small_m == pow(shift, small_m)
        one_over_denom == inversed(sub(shift_to_small_m, one))
        T0_coeff == mul(sub(t_to_small_m, shift_to_small_m),
                        neg(one_over_denom))
        T1_coeff == mul(sub(t_to_small_m, one), one_over_denom)
    IN  [ i \in 1 .. m |->
            IF i <= small_m THEN mul(T0[i], T0_coeff)
            ELSE IF i <= 2 * small_m THEN mul(T1[i - small_m], T1_coeff)
            ELSE zero ]

get_domain_element(idx) ==
    IF idx < small_m
    THEN pow(omega, idx)
    ELSE mul(shift, pow(omega, idx - small_m))

\* Variant of compute_vanishing_polynomial with shift in place of
\* shift^small_m.
compute_vanishing_polynomial_shift_unraised(t) ==
    mul(sub(pow(t, small_m), one), sub(pow(t, small_m), shift))

compute_vanishing_polynomial(t) ==
    mul(sub(pow(t, small_m), one),
        sub(pow(t, small_m), pow(shift, small_m)))

\* add_poly_z on a vector H with H.size() > m.  The three updates are
\* applied in the order of the code, so that coinciding indices accumulate.
add_poly_z(coeff, H) ==
    LET shift_to_small_m == pow(shift, small_m)
        H1 == [H  EXCEPT ![m + 1] = add(@, coeff)]
        H2 == [H1 EXCEPT ![small_m + 1] =
                   sub(@, mul(coeff, add(shift_to_small_m, one)))]
    IN  [H2 EXCEPT ![1] = add(@, mul(coeff, shift_to_small_m))]

\* The two scalars divide_by_z_on_coset inverts.
coset_Z0 ==
    LET coset_to_small_m == pow(multiplicative_generator, small_m)
        shift_to_small_m == pow(shift, small_m)
    IN  mul(sub(coset_to_small_m, one),
            sub(coset_to_small_m, shift_to_small_m))

coset_Z1 ==
    LET coset_to_small_m == pow(multiplicative_generator, small_m)
        shift_to_small_m == pow(shift, small_m)
    IN  mul(sub(mul(coset_to_small_m, shift_to_small_m), one),
            sub(mul(coset_to_small_m, shift_to_small_m), shift_to_small_m))

\* The loop of divide_by_z_on_coset (lines 194-197) on a vector P with
\* P.size() >= 2 * small_m, given the two inverses.
divide_by_z_on_coset(Pv, Z0_inverse, Z1_inverse) ==
    [ i \in 1 .. Len(Pv) |->
        IF i <= small_m THEN mul(Pv[i], Z0_inverse)
        ELSE IF i <= 2 * small_m THEN mul(Pv[i], Z1_inverse)
        ELSE Pv[i] ]

(***************************************************************************)
(* The caller.  It instantiates the template, constructs one domain and    *)
(* then makes one scalar query, or calls one vector operation on a fresh   *)
(* vector, or calls fft on a fresh vector and inverse_fft on what fft left *)
(* in it.  The domain is immutable, so longer call sequences add nothing.  *)
(***************************************************************************)
Min(x, y) == IF x <= y THEN x ELSE y

\* The non-zero coefficients the caller uses.
Coeffs == 1 .. Min(MaxCoeff, P - 1)

RECURSIVE VectorsOf(_, _)
\* The vectors of length n with at most k non-zero entries.
VectorsOf(n, k) ==
    IF n = 0 THEN { << >> }
    ELSE { Append(v, zero) : v \in VectorsOf(n - 1, k) }
         \cup (IF k = 0 THEN {}
               ELSE UNION { { Append(v, c) : v \in VectorsOf(n - 1, k - 1) }
                            : c \in Coeffs })

InputVectors == UNION { VectorsOf(n, MaxNonZero) : n \in 0 .. (m + MaxExtra) }

\* The points t the caller passes: every element of the field.
InputScalars == Elems

\* The factors coeff the caller passes.
InputCoeffs == {zero} \cup Coeffs

Idle == status = "ok" /\ op = "construct"

\* The vectors a vector operation is called on right after construction.
FreshVectors == IF Idle THEN InputVectors ELSE {}

\* The buffer fft left behind, handed on to inverse_fft.
FftBuffer == IF status = "ok" /\ hist = << "fft" >> THEN {a} ELSE {}

Init ==
    /\ FieldType \in Fields
    /\ cshift \in CosetShiftChoices
    /\ status = "none"
    /\ m = Unset
    /\ small_m = Unset
    /\ omega = Unset
    /\ shift = Unset
    /\ op = "none"
    /\ hist = << >>
    /\ orig = << >>
    /\ a_in = << >>
    /\ a = << >>
    /\ arg = Unset
    /\ ret = Unset
    /\ result = << >>
    /\ err = "none"

Construct ==
    /\ status = "none"
    /\ \E mm \in 0 .. MaxM :
         LET d == extended_radix2_domain(mm)
         IN  /\ m' = mm
             /\ small_m' = d.small_m
             /\ omega' = d.omega
             /\ shift' = d.shift
             /\ err' = d.err
             /\ status' = IF d.err = "none" THEN "ok" ELSE "failed"
             /\ arg' = mm
    /\ op' = "construct"
    /\ UNCHANGED << FieldType, cshift, hist, orig, a_in, a, ret, result >>

\* Bookkeeping of a call of the vector operation f on v that leaves w.
VectorCall(f, v, w, e) ==
    /\ op' = f
    /\ hist' = IF Idle THEN << f >> ELSE Append(hist, f)
    /\ orig' = IF Idle THEN v ELSE orig
    /\ a_in' = v
    /\ a' = w
    /\ err' = e
    /\ ret' = Unset
    /\ result' = << >>
    /\ UNCHANGED domainVars

Fft ==
    \E v \in FreshVectors :
        /\ VectorCall("fft", v, fft(v).a, fft(v).err)
        /\ arg' = Unset

InverseFft ==
    \E v \in FreshVectors \cup FftBuffer :
        /\ VectorCall("inverse_fft", v, inverse_fft(v).a, inverse_fft(v).err)
        /\ arg' = Unset

\* H shorter than m + 1 makes add_poly_z write out of bounds; the caller
\* keeps to the documented length.
AddPolyZ ==
    \E v \in { w \in FreshVectors : Len(w) >= m + 1 } :
        \E coeff \in InputCoeffs :
            /\ VectorCall("add_poly_z", v, add_poly_z(coeff, v), "none")
            /\ arg' = coeff

\* P shorter than 2 * small_m makes the loop write out of bounds; the caller
\* passes at least that many entries.  Inverting a zero Z0 or Z1 either
\* throws before the loop or yields some element.
DivideByZOnCoset ==
    \E v \in { w \in FreshVectors : Len(w) >= 2 * small_m } :
        /\ \/ \E Z0_inverse \in InverseOutcomes(coset_Z0) :
                \E Z1_inverse \in InverseOutcomes(coset_Z1) :
                    VectorCall("divide_by_z_on_coset", v,
                        divide_by_z_on_coset(v, Z0_inverse, Z1_inverse),
                        "none")
           \/ /\ coset_Z0 = zero \/ coset_Z1 = zero
              /\ VectorCall("divide_by_z_on_coset", v, v, ErrInverse)
        /\ arg' = Unset

\* Bookkeeping of a call of the scalar query f with argument x.
ScalarCall(f, x) ==
    /\ Idle
    /\ op' = f
    /\ arg' = x
    /\ err' = "none"
    /\ UNCHANGED << domainVars, hist, orig, a_in, a >>

EvaluateAllLagrangePolynomials ==
    \E t \in InputScalars :
        /\ ScalarCall("evaluate_all_lagrange_polynomials", t)
        /\ result' = evaluate_all_lagrange_polynomials(t)
        /\ ret' = Unset

\* idx ranges past m: the function checks no bound.
GetDomainElement ==
    \E idx \in 0 .. (m + MaxExtra) :
        /\ ScalarCall("get_domain_element", idx)
        /\ ret' = get_domain_element(idx)
        /\ result' = << >>

ComputeVanishingPolynomial ==
    \E t \in InputScalars :
        /\ ScalarCall("compute_vanishing_polynomial", t)
        /\ ret' = compute_vanishing_polynomial(t)
        /\ result' = << >>

Next ==
    \/ Construct
    \/ Fft
    \/ InverseFft
    \/ EvaluateAllLagrangePolynomials
    \/ GetDomainElement
    \/ ComputeVanishingPolynomial
    \/ AddPolyZ
    \/ DivideByZOnCoset

Spec == Init /\ [][Next]_vars

(***************************************************************************)
(* Reference notions the properties are stated with.                       *)
(***************************************************************************)
\* The domain has the shape the member functions assume.
ProperDomain == status = "ok" /\ m = 2 * small_m

\* The standard coefficient-form evaluator: sum_k c[k] * x^k.
evaluate_polynomial(c, x) ==
    SumTo([ k \in 1 .. Len(c) |-> mul(c[k], pow(x, k - 1)) ], Len(c))

\* The indices 0 .. m-1 of the domain points.
DomainIndices == 0 .. (m - 1)

\* The Lagrange basis polynomial of domain point i over all m domain
\* points, evaluated at t: prod_{j # i} (t - x_j) / (x_i - x_j).
LagrangeBasisAt(i, t) ==
    LET x(j) == get_domain_element(j)
    IN  mul(ProdTo([ j \in 1 .. m |->
                       IF j - 1 = i THEN one ELSE sub(t, x(j - 1)) ], m),
            inversed(ProdTo([ j \in 1 .. m |->
                       IF j - 1 = i THEN one ELSE sub(x(i), x(j - 1)) ], m)))

\* v extended with zeros to length n.
ZeroExtended(v, n) == v \o [ i \in 1 .. (n - Len(v)) |-> zero ]

\* The inversions outside divide_by_z_on_coset never meet zero, so that
\* inversed is the whole of their behaviour.
InverseArgsNonZero ==
    status = "ok" =>
        /\ omega # zero
        /\ shift # zero
        /\ mul(value_type(small_m), sub(one, pow(shift, small_m))) # zero
        /\ sub(pow(shift, small_m), one) # zero
        /\ \A i \in 0 .. (small_m - 1) : \A j \in 0 .. (small_m - 1) :
               i # j => pow(omega, i) # pow(omega, j)

\* No member function changes the domain.
DomainImmutable == [][status = "ok" => UNCHANGED domainVars]_vars

(***************************************************************************)
(* C1.  Round trip: fft on a vector of exactly m elements followed by      *)
(* inverse_fft on the result gives back the vector, element by element.    *)
(***************************************************************************)
C1_RoundTrip ==
    (status = "ok" /\ hist = << "fft", "inverse_fft" >> /\ Len(orig) = m)
        => (err = "none" /\ a = orig)

\* C1 restricted to the domains with m = 2 * small_m.
C1_RoundTrip_ProperDomain == ProperDomain => C1_RoundTrip

C1_ProperDomain_Witness ==
    /\ ProperDomain
    /\ hist = << "fft", "inverse_fft" >>
    /\ Len(orig) = m
    /\ orig[m] # zero
    /\ a = orig

(***************************************************************************)
(* C2.  Evaluation consistency: after fft on a coefficient vector of       *)
(* length m, entry i of the buffer is the polynomial evaluated at          *)
(* get_domain_element(i), for every i < m.                                 *)
(***************************************************************************)
C2_EvaluationConsistency ==
    (status = "ok" /\ hist = << "fft" >> /\ Len(orig) = m)
        => /\ err = "none"
           /\ Len(a) = m
           /\ \A i \in DomainIndices :
                  a[i + 1] = evaluate_polynomial(orig, get_domain_element(i))

\* C2 restricted to the domains with m = 2 * small_m.
C2_EvaluationConsistency_ProperDomain ==
    ProperDomain => C2_EvaluationConsistency

C2_ProperDomain_Witness ==
    /\ ProperDomain
    /\ hist = << "fft" >>
    /\ Len(orig) = m
    /\ orig[m] # zero
    /\ a[m] = evaluate_polynomial(orig, get_domain_element(m - 1))

(***************************************************************************)
(* C3.  Lagrange basis: evaluate_all_lagrange_polynomials(t) has length m  *)
(* and its entry i is the Lagrange basis polynomial of domain point i at   *)
(* t; at t = get_domain_element(j) entry j is one and the others are zero. *)
(***************************************************************************)
C3_LagrangeBasis ==
    (status = "ok" /\ op = "evaluate_all_lagrange_polynomials")
        => /\ Len(result) = m
           /\ \A i \in DomainIndices : result[i + 1] = LagrangeBasisAt(i, arg)
           /\ \A j \in DomainIndices :
                  arg = get_domain_element(j)
                      => \A i \in DomainIndices :
                             result[i + 1] = IF i = j THEN one ELSE zero

\* C3 restricted to the domains with m = 2 * small_m.
C3_LagrangeBasis_ProperDomain == ProperDomain => C3_LagrangeBasis

C3_ProperDomain_Witness ==
    /\ ProperDomain
    /\ op = "evaluate_all_lagrange_polynomials"
    /\ arg = get_domain_element(m - 1)
    /\ result[m] = one

(***************************************************************************)
(* C4.  Vanishing polynomial: compute_vanishing_polynomial(t) is zero      *)
(* exactly when t is one of the domain points get_domain_element(i),       *)
(* i < m.                                                                  *)
(***************************************************************************)
C4_VanishingPolynomial ==
    (status = "ok" /\ op = "compute_vanishing_polynomial")
        => ((ret = zero)
                <=> (\E i \in DomainIndices : arg = get_domain_element(i)))

C4_Witness ==
    /\ status = "ok"
    /\ op = "compute_vanishing_polynomial"
    /\ arg = get_domain_element(m - 1)
    /\ arg # one
    /\ ret = zero

\* The other direction of C4 is exercised too: a point off the domain.
C4_OffDomain_Witness ==
    /\ status = "ok"
    /\ op = "compute_vanishing_polynomial"
    /\ arg # zero
    /\ \A i \in DomainIndices : arg # get_domain_element(i)
    /\ ret # zero

(***************************************************************************)
(* C5.  Size invariant: a constructed domain has m even, m = 2 * small_m,  *)
(* small_m a power of two and m = 2^(s+1).                                 *)
(***************************************************************************)
C5_SizeInvariant ==
    status = "ok"
        => /\ m % 2 = 0
           /\ m = 2 * small_m
           /\ IsPow2(small_m)
           /\ m = Pow2(s + 1)

(***************************************************************************)
(* C6.  Construction rejection: with m <= 1, or with                       *)
(* ceil(log2(m)) # s + 1, the constructor throws invalid_argument and has  *)
(* computed none of small_m, omega and shift.                              *)
(***************************************************************************)
C6_ConstructionRejection ==
    (op = "construct" /\ (arg <= 1 \/ CeilLog2(arg) # s + 1))
        => /\ status = "failed"
           /\ err = (IF arg <= 1 THEN ErrM ELSE ErrLogM)
           /\ small_m = Unset
           /\ omega = Unset
           /\ shift = Unset

C6_Witness ==
    /\ op = "construct"
    /\ arg > 1
    /\ CeilLog2(arg) # s + 1
    /\ status = "failed"
    /\ err = ErrLogM

\* The case m <= 1 of C6 is exercised too.
C6_SmallM_Witness ==
    /\ op = "construct"
    /\ arg = 1
    /\ status = "failed"
    /\ err = ErrM

(***************************************************************************)
(* C7.  Padding: fft and inverse_fft on a vector shorter than m leave the  *)
(* buffer with length m and exactly as the same call on the vector         *)
(* extended with zeros to length m leaves it.                              *)
(***************************************************************************)
C7_Padding ==
    /\ (status = "ok" /\ op = "fft" /\ Len(a_in) < m)
           => /\ Len(a) = m
              /\ a = fft(ZeroExtended(a_in, m)).a
              /\ err = fft(ZeroExtended(a_in, m)).err
    /\ (status = "ok" /\ op = "inverse_fft" /\ Len(a_in) < m)
           => /\ Len(a) = m
              /\ a = inverse_fft(ZeroExtended(a_in, m)).a
              /\ err = inverse_fft(ZeroExtended(a_in, m)).err

C7_Witness ==
    /\ status = "ok"
    /\ op = "fft"
    /\ Len(a_in) = m - 1
    /\ a_in[m - 1] # zero
    /\ Len(a) = m
    /\ err = "none"

\* The inverse_fft half of C7 is exercised too.
C7_Inverse_Witness ==
    /\ ProperDomain
    /\ op = "inverse_fft"
    /\ Len(a_in) = m - 1
    /\ a_in[m - 1] # zero
    /\ Len(a) = m
    /\ err = "none"

(***************************************************************************)
(* C8.  Size mismatch: fft and inverse_fft on a vector longer than m throw *)
(* invalid_argument and leave the caller's buffer as it was.               *)
(***************************************************************************)
C8_SizeMismatch ==
    (status = "ok" /\ op \in {"fft", "inverse_fft"} /\ Len(a_in) > m)
        => (err = ErrSize /\ a = a_in)

C8_Witness ==
    /\ status = "ok"
    /\ op = "fft"
    /\ Len(a_in) = m + 1
    /\ a_in[m + 1] # zero
    /\ err = ErrSize

\* The inverse_fft half of C8 is exercised too.
C8_Inverse_Witness ==
    /\ status = "ok"
    /\ op = "inverse_fft"
    /\ Len(a_in) = m + 1
    /\ err = ErrSize

(***************************************************************************)
(* C9.  add_poly_z on H of length m + 1 changes at most the entries 0,     *)
(* small_m and m, and raises the value of the polynomial H at every t by   *)
(* coeff * compute_vanishing_polynomial(t).                                *)
(***************************************************************************)
C9_AddPolyZ ==
    (status = "ok" /\ op = "add_poly_z" /\ Len(a_in) = m + 1)
        => /\ Len(a) = m + 1
           /\ \A i \in 0 .. m :
                  i \notin {0, small_m, m} => a[i + 1] = a_in[i + 1]
           /\ \A t \in Elems :
                  evaluate_polynomial(a, t) =
                      add(evaluate_polynomial(a_in, t),
                          mul(arg, compute_vanishing_polynomial(t)))

\* C9 restricted to the domains with m = 2 * small_m.
C9_AddPolyZ_ProperDomain == ProperDomain => C9_AddPolyZ

C9_ProperDomain_Witness ==
    /\ ProperDomain
    /\ op = "add_poly_z"
    /\ Len(a_in) = m + 1
    /\ arg # zero
    /\ a[m + 1] # a_in[m + 1]

(***************************************************************************)
(* C10.  divide_by_z_on_coset on P of length m is defined (Z0 and Z1 are   *)
(* non-zero), divides the first small_m entries by one scalar and the      *)
(* other entries by another, and afterwards                                *)
(* P[i] * compute_vanishing_polynomial(g * get_domain_element(i)) is the   *)
(* former P[i], for every i < m.                                           *)
(***************************************************************************)
C10_DivideByZOnCoset ==
    (status = "ok" /\ op = "divide_by_z_on_coset" /\ Len(a_in) = m)
        => /\ coset_Z0 # zero
           /\ coset_Z1 # zero
           /\ err = "none"
           /\ Len(a) = m
           /\ \A i \in DomainIndices :
                  mul(a[i + 1],
                      compute_vanishing_polynomial(
                          mul(multiplicative_generator,
                              get_domain_element(i)))) = a_in[i + 1]
           /\ \A i \in DomainIndices :
                  mul(a[i + 1], IF i < small_m THEN coset_Z0 ELSE coset_Z1)
                      = a_in[i + 1]

\* C10 restricted to the domains with m = 2 * small_m.
C10_DivideByZOnCoset_ProperDomain == ProperDomain => C10_DivideByZOnCoset

\* C10 restricted to the domains with m = 2 * small_m on which neither
\* scalar is zero.
C10_DivideByZOnCoset_Defined ==
    (ProperDomain /\ coset_Z0 # zero /\ coset_Z1 # zero)
        => C10_DivideByZOnCoset

C10_Defined_Witness ==
    /\ ProperDomain
    /\ coset_Z0 # zero
    /\ coset_Z1 # zero
    /\ op = "divide_by_z_on_coset"
    /\ Len(a_in) = m
    /\ a_in[m] # zero
    /\ err = "none"

=============================================================================
